---- MODULE Spec2Model ----
(***************************************************************************)
(* crier: an in-process publish/subscribe dispatcher.                      *)
(* Model of core/src/publisher.rs (Publisher) and core/src/handler.rs      *)
(* (the type-erased trampolines dyn_handle / dyn_handle_mut).              *)
(*                                                                         *)
(* A Publisher owns handler_count and the handlers map.  subscribe,        *)
(* subscribe_with, subscribe_mut, unsubscribe, unsubscribe_mut and publish *)
(* all take &mut self, so calls on one Publisher never overlap: the only   *)
(* concurrency is between the thread that runs publish and the scoped      *)
(* worker threads publish spawns for the Sync (read-only) handlers.        *)
(*                                                                         *)
(* SpecHang adds a handler that never returns, FairSpec the scheduling of  *)
(* the threads, and SpecOld models the earlier batch-draining publish of   *)
(* src/publisher.rs.  That publish takes &self, so several callers may be  *)
(* inside it at once on one Publisher; each has its own locals (old[c]).   *)
(***************************************************************************)
EXTENDS Naturals, Sequences, FiniteSets

(* ---------------------------------------------------------------- bounds *)

\* subscribe / subscribe_with / subscribe_mut calls made on the publisher
MaxSubs == 3

\* matching events delivered to one mutating handler (caps its counter)
MaxCount == 2

\* largest value thread::available_parallelism() reports
MaxP == 2

\* threads that call the earlier publish(&self) on one Publisher
MaxCallers == 2

(* ----------------------------------------------------------- value sets *)

Ids == 1..MaxSubs

Callers == 1..MaxCallers

\* the concrete event types (TypeId of the published value)
EventTypes == {"A", "B"}

\* the type tag of a handler that implements DynHandle or DynHandleMut
\* itself (TestHandler, TestHandlerMut, PanicHandler): it declares no
\* event type and makes no downcast
Direct == "dyn"

\* what a subscribed object can be: declared for one event type (a
\* Handler<T>, a Handle or a HandleMut object), or a direct implementor
HandlerTys == EventTypes \cup {Direct}

\* thread::available_parallelism(): Err (modelled as 0) or Ok(n), n >= 1
Parallelism == 0..MaxP

VARIABLES
  handler_count,   \* Publisher.handler_count
  handlers,        \* Publisher.handlers: id -> stored handler
  poisoned,        \* ids of SyncMut handlers whose Mutex is poisoned
  locked,          \* ids of SyncMut handlers whose Mutex is held
  counter,         \* id -> state of a mutating handler (InfoHandler.counter)
  pc,              \* position of the thread running publish
  event,           \* type of the event being published
  max_threads,     \* publish's local max_threads
  remaining,       \* registry entries the for loop has not visited yet
  cur,             \* the entry the for loop is at
  active_handles,  \* publish's local Vec of join handles, oldest first
  thread,          \* id -> state of the worker spawned for that entry
  errors,          \* publish's local errors, as the ids whose payload it holds
  result,          \* what the last publish call gave its caller
  cause,           \* why the publish call is unwinding
  tramp,           \* id -> trampoline invocations during this publish
  calls,           \* id -> user handler invocations during this publish
  issued,          \* every id returned by a subscribe call, in order
  unsubscribed,    \* ids passed to unsubscribe / unsubscribe_mut after issue
  pubs,            \* id -> matching publish calls begun on a mutating handler
  missed,          \* id -> those of them that unwound before reaching it
  via,             \* id -> trait bound of the call that registered it
  errspawn,        \* panicking workers of this publish, in spawn order
  errdone,         \* panicking workers of this publish, as they finished
  faulted,         \* registered ids with a record in a list publish returned
  removed_mut,     \* ids whose entry was a mutating handler when removed
  old              \* caller -> its call of the earlier publish(&self)

vars == <<handler_count, handlers, poisoned, locked, counter, pc, event,
          max_threads, remaining, cur, active_handles, thread, errors,
          result, cause, tramp, calls, issued, unsubscribed, pubs, missed,
          via, errspawn, errdone, faulted, removed_mut, old>>

\* the state of the publisher of core/src
core == <<handler_count, handlers, poisoned, locked, counter, pc, event,
          max_threads, remaining, cur, active_handles, thread, errors,
          result, cause, tramp, calls, issued, unsubscribed, pubs, missed,
          via, errspawn, errdone, faulted, removed_mut>>

registry == <<handler_count, handlers>>
mutexes  == <<poisoned, locked>>
walk     == <<remaining, cur>>
ghosts   == <<issued, unsubscribed, pubs, missed, via>>
order    == <<errspawn, errdone>>
past     == <<faulted, removed_mut>>

Zero == [i \in Ids |-> 0]

\* a caller without a call of publish in progress
IdleCall ==
  [pc |-> "idle", event |-> "none", max_threads |-> 0, remaining |-> {},
   handles |-> <<>>, thread |-> [i \in Ids |-> "none"], errors |-> <<>>,
   result |-> "none"]

(* ------------------------------------------------------------- handlers *)

\* enum HandlerType: the variant an entry is stored under.  What it holds is
\* a trait object (dyn DynHandle or dyn DynHandleMut): of the user's handler
\* only the event type it is declared for and what its code does when it is
\* invoked (return, or panic) remain.
HandlerType(kind, ty, panics) == [kind |-> kind, ty |-> ty, panics |-> panics]

\* mutant of downcast_ref: the downcast succeeds whatever the type
downcast_unchecked(ev, ty) == TRUE

\* event.get_data().downcast_ref::<T>() is Some: the TypeIds are equal
downcast_ref(ev, ty) == ev = ty

\* impl DynHandle for Handler<T> / for U: Handle, impl DynHandleMut for
\* U: HandleMut: the user handler runs only when the downcast succeeds.
\* The dyn_handle / dyn_handle_mut of a direct implementor is the user's
\* own code and runs for every event.
Invokes(h, ev) == h.ty = Direct \/ downcast_ref(ev, h.ty)

\* mutant of dyn_handle: the user handler runs without the downcast
dyn_handle_unfiltered(h, ev) == IF h.panics THEN "panic" ELSE "ok"

\* how a trampoline call ends: "panic" when the user handler ran and
\* panicked, "ok" when it returned or the event was filtered out
dyn_handle(h, ev) == IF Invokes(h, ev) /\ h.panics THEN "panic" ELSE "ok"

\* mutant of catch_unwind: the closure's result is thrown away
catch_unwind_discard(outcome) == "ok"

\* std::panic::catch_unwind around dyn_handle in the spawned closure: the
\* worker's own result, Ok(()) or Err(payload)
catch_unwind(outcome) == IF outcome = "panic" THEN "err" ELSE "ok"

(* ------------------------------------------------------------- registry *)

\* HashMap::insert
Insert(map, id, h) ==
  [i \in (DOMAIN map) \cup {id} |-> IF i = id THEN h ELSE map[i]]

\* mutant of RemoveEntry: the entry stays in the map
RemoveNothing(map, id) == map

\* HashMap::remove_entry
RemoveEntry(map, id) == [i \in (DOMAIN map) \ {id} |-> map[i]]

Range(s) == {s[i] : i \in DOMAIN s}

\* mutant of subscribe: the new id is not stored back into handler_count
subscribe_stale(h) ==
  LET id == handler_count + 1 IN
    /\ pc = "idle"
    /\ handler_count < MaxSubs
    /\ handlers' = Insert(handlers, id, h)
    /\ issued' = Append(issued, id)
    /\ UNCHANGED <<handler_count, mutexes, counter, pc, event, max_threads,
                   walk, active_handles, thread, errors, result, cause, tramp,
                   calls, unsubscribed, pubs, missed, order, past, old>>

\* mutant of subscribe: the id is taken from the size of the map
subscribe_by_len(h) ==
  LET id == Cardinality(DOMAIN handlers) + 1 IN
    /\ pc = "idle"
    /\ handler_count < MaxSubs
    /\ handlers' = Insert(handlers, id, h)
    /\ handler_count' = handler_count + 1
    /\ issued' = Append(issued, id)
    /\ UNCHANGED <<mutexes, counter, pc, event, max_threads, walk,
                   active_handles, thread, errors, result, cause, tramp,
                   calls, unsubscribed, pubs, missed, order, past, old>>

\* Publisher::subscribe / Publisher::subscribe_mut: both allocate
\* handler_count + 1, insert under it and store it back as handler_count
subscribe(h) ==
  LET id == handler_count + 1 IN
    /\ pc = "idle"
    /\ handler_count < MaxSubs
    /\ handlers' = Insert(handlers, id, h)
    /\ handler_count' = id
    /\ issued' = Append(issued, id)
    /\ UNCHANGED <<mutexes, counter, pc, event, max_threads, walk,
                   active_handles, thread, errors, result, cause, tramp,
                   calls, unsubscribed, pubs, missed, order, past, old>>

\* publisher.subscribe(handler) with an object implementing Handle
Subscribe(ty, panics) ==
  /\ subscribe(HandlerType("Sync", ty, panics))
  /\ via' = [via EXCEPT ![handler_count + 1] = "DynHandle"]

\* publisher.subscribe_with(closure): Handler::new(closure), then subscribe
SubscribeWith(ty, panics) ==
  /\ subscribe(HandlerType("Sync", ty, panics))
  /\ via' = [via EXCEPT ![handler_count + 1] = "DynHandle"]

\* mutant of SubscribeMut: the handler is stored in the read-only variant
SubscribeMutAsSync(ty, panics) ==
  /\ subscribe(HandlerType("Sync", ty, panics))
  /\ via' = [via EXCEPT ![handler_count + 1] = "DynHandleMut"]

\* publisher.subscribe_mut(handler) with an object implementing HandleMut
SubscribeMut(ty, panics) ==
  /\ subscribe(HandlerType("SyncMut", ty, panics))
  /\ via' = [via EXCEPT ![handler_count + 1] = "DynHandleMut"]

\* mutant of remove: handler_count is kept as the number of entries
remove_decrement(id) ==
  /\ pc = "idle"
  /\ handlers' = RemoveEntry(handlers, id)
  /\ handler_count' = IF handler_count > 0 THEN handler_count - 1 ELSE 0
  /\ poisoned' = poisoned \ {id}
  /\ counter' = [counter EXCEPT ![id] = 0]
  /\ pubs' = [pubs EXCEPT ![id] = 0]
  /\ missed' = [missed EXCEPT ![id] = 0]
  /\ unsubscribed' = IF id \in Range(issued) THEN unsubscribed \cup {id}
                     ELSE unsubscribed
  /\ via' = [via EXCEPT ![id] = "none"]
  /\ faulted' = faulted \ {id}
  /\ removed_mut' = IF id \in DOMAIN handlers /\ handlers[id].kind = "SyncMut"
                      THEN removed_mut \cup {id} ELSE removed_mut
  /\ UNCHANGED <<locked, pc, event, max_threads, walk, active_handles,
                 thread, errors, result, cause, tramp, calls, issued, order,
                 old>>

\* Publisher::unsubscribe and Publisher::unsubscribe_mut have the same body:
\* self.handlers.remove_entry(&id).  Dropping the entry drops the handler
\* object, its Mutex and its state.
remove(id) ==
  /\ pc = "idle"
  /\ handlers' = RemoveEntry(handlers, id)
  /\ poisoned' = poisoned \ {id}
  /\ counter' = [counter EXCEPT ![id] = 0]
  /\ pubs' = [pubs EXCEPT ![id] = 0]
  /\ missed' = [missed EXCEPT ![id] = 0]
  /\ unsubscribed' = IF id \in Range(issued) THEN unsubscribed \cup {id}
                     ELSE unsubscribed
  /\ via' = [via EXCEPT ![id] = "none"]
  /\ faulted' = faulted \ {id}
  /\ removed_mut' = IF id \in DOMAIN handlers /\ handlers[id].kind = "SyncMut"
                      THEN removed_mut \cup {id} ELSE removed_mut
  /\ UNCHANGED <<handler_count, locked, pc, event, max_threads, walk,
                 active_handles, thread, errors, result, cause, tramp, calls,
                 issued, order, old>>

\* mutant of Unsubscribe: it only removes an entry of the read-only variant
UnsubscribeShared(id) ==
  IF id \in DOMAIN handlers /\ handlers[id].kind = "SyncMut"
    THEN pc = "idle" /\ UNCHANGED vars
    ELSE remove(id)

\* Publisher::unsubscribe
Unsubscribe(id) == remove(id)

\* Publisher::unsubscribe_mut
UnsubscribeMut(id) == remove(id)

(* -------------------------------------------------------------- publish *)

\* thread::available_parallelism().map(|n| n.get()).unwrap_or(1)
MaxThreads(par) == IF par = 0 THEN 1 ELSE par

\* mutant of AtCapacity: off by one
AtCapacityStrict(len, max) == len > max

\* the test both scheduling checks make: active_handles.len() >= max_threads
AtCapacity(len, max) == len >= max

\* workers spawned by this publish call and not joined yet
InFlight == {i \in Ids : thread[i] \in {"running", "hung", "ok", "err"}}

\* workers whose closure is still executing
Running == {i \in Ids : thread[i] \in {"running", "hung"}}

\* workers whose user handler was entered and will never return
Hung == {i \in Ids : thread[i] = "hung"}

\* mutant of PushIfErr: every joined worker leaves a record
PushAlways(errs, id, res) == Append(errs, id)

\* errors after `if let Err(e) = handle.join().unwrap_or_else(Err)
\* { errors.push(e) }` on the worker of entry id
PushIfErr(errs, id, res) == IF res = "err" THEN Append(errs, id) ELSE errs

\* mutant of JoinOldest: a worker pool, the first finished worker is joined
JoinAnyFinished ==
  \E k \in 1..Len(active_handles) :
    LET id == active_handles[k] IN
      /\ thread[id] \in {"ok", "err"}
      /\ \A j \in 1..(k - 1) : thread[active_handles[j]] \notin {"ok", "err"}
      /\ active_handles' = SubSeq(active_handles, 1, k - 1)
                             \o SubSeq(active_handles, k + 1,
                                       Len(active_handles))
      /\ errors' = PushIfErr(errors, id, thread[id])
      /\ thread' = [thread EXCEPT ![id] = "joined"]

\* active_handles.remove(0) followed by join(): blocks until that worker
\* has finished
JoinOldest ==
  LET id == Head(active_handles) IN
    /\ thread[id] \in {"ok", "err"}
    /\ active_handles' = Tail(active_handles)
    /\ errors' = PushIfErr(errors, id, thread[id])
    /\ thread' = [thread EXCEPT ![id] = "joined"]

\* one of the two `if active_handles.len() >= max_threads { ... }` blocks
CapacityCheck ==
  IF AtCapacity(Len(active_handles), max_threads)
    THEN JoinOldest
    ELSE UNCHANGED <<active_handles, errors, thread>>

\* a mutating handler registered under i that the event ev is meant for
MutTarget(i, ev) ==
  /\ i \in DOMAIN handlers
  /\ handlers[i].kind = "SyncMut"
  /\ Invokes(handlers[i], ev)

\* publish is entered: the event is wrapped, max_threads is read, errors and
\* active_handles start empty
PublishBegin(ev, par) ==
  /\ pc = "idle"
  /\ \A i \in Ids : MutTarget(i, ev) => pubs[i] < MaxCount
  /\ pc' = "loop"
  /\ event' = ev
  /\ max_threads' = MaxThreads(par)
  /\ remaining' = DOMAIN handlers
  /\ pubs' = [i \in Ids |-> IF MutTarget(i, ev) THEN pubs[i] + 1 ELSE pubs[i]]
  /\ UNCHANGED <<registry, mutexes, counter, cur, active_handles, thread,
                 errors, result, cause, tramp, calls, issued, unsubscribed,
                 missed, via, order, past, old>>

\* `for handler in self.handlers.values()` reaches a HandlerType::Sync
\* entry, in the map's unspecified iteration order, and makes the check
\* before spawning
SyncArm(id) ==
  /\ pc = "loop"
  /\ id \in remaining
  /\ handlers[id].kind = "Sync"
  /\ CapacityCheck
  /\ cur' = id
  /\ remaining' = remaining \ {id}
  /\ pc' = "spawn"
  /\ UNCHANGED <<registry, mutexes, counter, event, max_threads, result,
                 cause, tramp, calls, ghosts, order, past, old>>

\* mutant of Spawn: the new handle goes to the front of active_handles
SpawnFront ==
  /\ pc = "spawn"
  /\ active_handles' = <<cur>> \o active_handles
  /\ thread' = [thread EXCEPT ![cur] = "running"]
  /\ errspawn' = IF dyn_handle(handlers[cur], event) = "panic"
                   THEN Append(errspawn, cur) ELSE errspawn
  /\ pc' = "post"
  /\ UNCHANGED <<registry, mutexes, counter, event, max_threads, walk,
                 errors, result, cause, tramp, calls, ghosts, errdone, past,
                 old>>

\* HandlerType::Sync arm: active_handles.push(s.spawn(...))
Spawn ==
  /\ pc = "spawn"
  /\ active_handles' = Append(active_handles, cur)
  /\ thread' = [thread EXCEPT ![cur] = "running"]
  /\ errspawn' = IF dyn_handle(handlers[cur], event) = "panic"
                   THEN Append(errspawn, cur) ELSE errspawn
  /\ pc' = "post"
  /\ UNCHANGED <<registry, mutexes, counter, event, max_threads, walk,
                 errors, result, cause, tramp, calls, ghosts, errdone, past,
                 old>>

\* mutant of WorkerRun: a handler that panicked is tried a second time
WorkerRunRetry(id) ==
  /\ thread[id] = "running"
  /\ tramp' = [tramp EXCEPT ![id] =
                 IF dyn_handle(handlers[id], event) = "panic"
                   THEN @ + 2 ELSE @ + 1]
  /\ calls' = [calls EXCEPT ![id] =
                 IF Invokes(handlers[id], event)
                   THEN (IF handlers[id].panics THEN @ + 2 ELSE @ + 1) ELSE @]
  /\ thread' = [thread EXCEPT
                  ![id] = catch_unwind(dyn_handle(handlers[id], event))]
  /\ errdone' = IF catch_unwind(dyn_handle(handlers[id], event)) = "err"
                  THEN Append(errdone, id) ELSE errdone
  /\ UNCHANGED <<registry, mutexes, counter, pc, event, max_threads, walk,
                 active_handles, errors, result, cause, ghosts, errspawn,
                 past, old>>

\* the spawned closure: catch_unwind(|| handler_clone.dyn_handle(event))
WorkerRun(id) ==
  /\ thread[id] = "running"
  /\ tramp' = [tramp EXCEPT ![id] = @ + 1]
  /\ calls' = [calls EXCEPT ![id] =
                 IF Invokes(handlers[id], event) THEN @ + 1 ELSE @]
  /\ thread' = [thread EXCEPT
                  ![id] = catch_unwind(dyn_handle(handlers[id], event))]
  /\ errdone' = IF catch_unwind(dyn_handle(handlers[id], event)) = "err"
                  THEN Append(errdone, id) ELSE errdone
  /\ UNCHANGED <<registry, mutexes, counter, pc, event, max_threads, walk,
                 active_handles, errors, result, cause, ghosts, errspawn,
                 past, old>>

\* the user handler of a worker is entered and never returns (an endless
\* loop in Handle::handle); only one handler of a publish does so
Hang(id) ==
  /\ thread[id] = "running"
  /\ Invokes(handlers[id], event)
  /\ Hung = {}
  /\ tramp' = [tramp EXCEPT ![id] = @ + 1]
  /\ calls' = [calls EXCEPT ![id] = @ + 1]
  /\ thread' = [thread EXCEPT ![id] = "hung"]
  /\ UNCHANGED <<registry, mutexes, counter, pc, event, max_threads, walk,
                 active_handles, errors, result, cause, ghosts, order, past,
                 old>>

\* mutant of MutArm: try_lock, and an entry that is not locked is passed over
MutArmSkip(id) ==
  /\ pc = "loop"
  /\ id \in remaining
  /\ handlers[id].kind = "SyncMut"
  /\ cur' = id
  /\ remaining' = remaining \ {id}
  /\ pc' = "post"
  /\ UNCHANGED <<registry, mutexes, counter, event, max_threads,
                 active_handles, thread, errors, result, cause, tramp, calls,
                 ghosts, order, past, old>>

\* mutant of MutArm: a poisoned lock is recovered (PoisonError::into_inner)
MutArmRecover(id) ==
  /\ pc = "loop"
  /\ id \in remaining
  /\ handlers[id].kind = "SyncMut"
  /\ cur' = id
  /\ remaining' = remaining \ {id}
  /\ pc' = "call"
  /\ locked' = locked \cup {id}
  /\ UNCHANGED <<registry, poisoned, counter, event, max_threads,
                 active_handles, thread, errors, result, cause, tramp, calls,
                 ghosts, order, past, old>>

\* the loop reaches a HandlerType::SyncMut entry:
\* handler_mut_clone.lock().expect("Handler mutex poisoned") panics on a
\* poisoned Mutex, on the thread running publish; the panic leaves the scope
\* closure and drops active_handles unjoined
MutArm(id) ==
  /\ pc = "loop"
  /\ id \in remaining
  /\ handlers[id].kind = "SyncMut"
  /\ cur' = id
  /\ remaining' = remaining \ {id}
  /\ IF id \in poisoned
       THEN /\ pc' = "unwind"
            /\ cause' = "poisoned"
            /\ active_handles' = <<>>
            /\ UNCHANGED locked
       ELSE /\ pc' = "call"
            /\ locked' = locked \cup {id}
            /\ UNCHANGED <<cause, active_handles>>
  /\ UNCHANGED <<registry, poisoned, counter, event, max_threads, thread,
                 errors, result, tramp, calls, ghosts, order, past, old>>

\* HandlerType::SyncMut arm: handler_guard.dyn_handle_mut(event), not under
\* catch_unwind.  A panic unwinds out of the scope closure; the guard is
\* dropped while panicking, which poisons the Mutex.  A handler that returns
\* has counted the event (InfoHandler::log).
MutCall ==
  /\ pc = "call"
  /\ tramp' = [tramp EXCEPT ![cur] = @ + 1]
  /\ calls' = [calls EXCEPT ![cur] =
                 IF Invokes(handlers[cur], event) THEN @ + 1 ELSE @]
  /\ IF dyn_handle(handlers[cur], event) = "panic"
       THEN /\ pc' = "unwind"
            /\ cause' = "fault"
            /\ poisoned' = poisoned \cup {cur}
            /\ locked' = locked \ {cur}
            /\ active_handles' = <<>>
            /\ UNCHANGED counter
       ELSE /\ pc' = "unlock"
            /\ counter' = [counter EXCEPT ![cur] =
                             IF Invokes(handlers[cur], event)
                               THEN @ + 1 ELSE @]
            /\ UNCHANGED <<cause, poisoned, locked, active_handles>>
  /\ UNCHANGED <<registry, event, max_threads, walk, thread, errors, result,
                 ghosts, order, past, old>>

\* mutant of MutUnlock: the guard is leaked (mem::forget) and never unlocks
MutUnlockLeak ==
  /\ pc = "unlock"
  /\ pc' = "post"
  /\ UNCHANGED <<registry, mutexes, counter, event, max_threads, walk,
                 active_handles, thread, errors, result, cause, tramp, calls,
                 ghosts, order, past, old>>

\* end of the SyncMut arm: handler_guard goes out of scope
MutUnlock ==
  /\ pc = "unlock"
  /\ locked' = locked \ {cur}
  /\ pc' = "post"
  /\ UNCHANGED <<registry, poisoned, counter, event, max_threads, walk,
                 active_handles, thread, errors, result, cause, tramp, calls,
                 ghosts, order, past, old>>

\* mutant of PostCheck: an iteration ends without a capacity check
PostCheckSkip ==
  /\ pc = "post"
  /\ pc' = "loop"
  /\ UNCHANGED <<registry, mutexes, counter, event, max_threads, walk,
                 active_handles, thread, errors, result, cause, tramp, calls,
                 ghosts, order, past, old>>

\* the check at the end of every loop iteration
PostCheck ==
  /\ pc = "post"
  /\ CapacityCheck
  /\ pc' = "loop"
  /\ UNCHANGED <<registry, mutexes, counter, event, max_threads, walk,
                 result, cause, tramp, calls, ghosts, order, past, old>>

\* `for handle in active_handles { join }` after the loop, one handle a step
FinalJoin ==
  /\ pc = "loop"
  /\ remaining = {}
  /\ active_handles # <<>>
  /\ JoinOldest
  /\ UNCHANGED <<registry, mutexes, counter, pc, event, max_threads, walk,
                 result, cause, tramp, calls, ghosts, order, past, old>>

\* the value publish returns: Ok(()) when errors is empty, else Err(errors)
PublishResult(errs) == IF errs = <<>> THEN "Ok" ELSE "Err"

\* mutant of Finish: publish returns without the final join loop
FinishEarly ==
  /\ pc = "loop"
  /\ remaining = {}
  /\ result' = PublishResult(errors)
  /\ pc' = "done"
  /\ faulted' = faulted \cup Range(errors)
  /\ UNCHANGED <<registry, mutexes, counter, event, max_threads, walk,
                 active_handles, thread, errors, cause, tramp, calls, ghosts,
                 order, removed_mut, old>>

\* mutant of Finish: the handlers that faulted are dropped from the registry
FinishEvict ==
  /\ pc = "loop"
  /\ remaining = {}
  /\ active_handles = <<>>
  /\ result' = PublishResult(errors)
  /\ pc' = "done"
  /\ faulted' = faulted \cup Range(errors)
  /\ handlers' = [i \in (DOMAIN handlers) \ Range(errors) |-> handlers[i]]
  /\ UNCHANGED <<handler_count, mutexes, counter, event, max_threads, walk,
                 active_handles, thread, errors, cause, tramp, calls, ghosts,
                 order, removed_mut, old>>

\* the scope has ended with every handle joined; publish returns
Finish ==
  /\ pc = "loop"
  /\ remaining = {}
  /\ active_handles = <<>>
  /\ result' = PublishResult(errors)
  /\ pc' = "done"
  /\ faulted' = faulted \cup Range(errors)
  /\ UNCHANGED <<registry, mutexes, counter, event, max_threads, walk,
                 active_handles, thread, errors, cause, tramp, calls, ghosts,
                 order, removed_mut, old>>

\* mutant of Unwind: the panic leaves publish without waiting for the workers
UnwindNow ==
  /\ pc = "unwind"
  /\ result' = "Panic"
  /\ pc' = "panicked"
  /\ missed' = [i \in Ids |->
                 IF MutTarget(i, event) /\ tramp[i] = 0
                   THEN missed[i] + 1 ELSE missed[i]]
  /\ UNCHANGED <<registry, mutexes, counter, event, max_threads, walk,
                 active_handles, thread, errors, cause, tramp, calls, issued,
                 unsubscribed, pubs, via, order, past, old>>

\* thread::scope after its closure panicked: it waits until no worker is
\* running, then resumes the panic into the caller of publish
Unwind ==
  /\ pc = "unwind"
  /\ Running = {}
  /\ result' = "Panic"
  /\ pc' = "panicked"
  /\ missed' = [i \in Ids |->
                 IF MutTarget(i, event) /\ tramp[i] = 0
                   THEN missed[i] + 1 ELSE missed[i]]
  /\ UNCHANGED <<registry, mutexes, counter, event, max_threads, walk,
                 active_handles, thread, errors, cause, tramp, calls, issued,
                 unsubscribed, pubs, via, order, past, old>>

\* the caller has the outcome (a value, or a panic it caught) and the
\* publisher is free for the next call; publish's locals are gone
Return ==
  /\ pc \in {"done", "panicked"}
  /\ pc' = "idle"
  /\ event' = "none"
  /\ max_threads' = 0
  /\ remaining' = {}
  /\ cur' = 0
  /\ active_handles' = <<>>
  /\ thread' = [i \in Ids |-> "none"]
  /\ errors' = <<>>
  /\ result' = "none"
  /\ cause' = "none"
  /\ tramp' = Zero
  /\ calls' = Zero
  /\ errspawn' = <<>>
  /\ errdone' = <<>>
  /\ UNCHANGED <<registry, mutexes, counter, ghosts, past, old>>

(* -------------------------------------------------------- specification *)

\* Publisher::default()
Init ==
  /\ handler_count = 0
  /\ handlers = <<>>
  /\ poisoned = {}
  /\ locked = {}
  /\ counter = Zero
  /\ pc = "idle"
  /\ event = "none"
  /\ max_threads = 0
  /\ remaining = {}
  /\ cur = 0
  /\ active_handles = <<>>
  /\ thread = [i \in Ids |-> "none"]
  /\ errors = <<>>
  /\ result = "none"
  /\ cause = "none"
  /\ tramp = Zero
  /\ calls = Zero
  /\ issued = <<>>
  /\ unsubscribed = {}
  /\ pubs = Zero
  /\ missed = Zero
  /\ via = [i \in Ids |-> "none"]
  /\ errspawn = <<>>
  /\ errdone = <<>>
  /\ faulted = {}
  /\ removed_mut = {}
  /\ old = [c \in Callers |-> IdleCall]

Next ==
  \/ \E ty \in HandlerTys, panics \in BOOLEAN : Subscribe(ty, panics)
  \/ \E ty \in EventTypes, panics \in BOOLEAN : SubscribeWith(ty, panics)
  \/ \E ty \in HandlerTys, panics \in BOOLEAN : SubscribeMut(ty, panics)
  \/ \E id \in Ids : Unsubscribe(id)
  \/ \E id \in Ids : UnsubscribeMut(id)
  \/ \E ev \in EventTypes, par \in Parallelism : PublishBegin(ev, par)
  \/ \E id \in Ids : SyncArm(id)
  \/ Spawn
  \/ \E id \in Ids : WorkerRun(id)
  \/ \E id \in Ids : MutArm(id)
  \/ MutCall
  \/ MutUnlock
  \/ PostCheck
  \/ FinalJoin
  \/ Finish
  \/ Unwind
  \/ Return

Spec == Init /\ [][Next]_vars

\* the steps of the thread that runs publish
MainStep ==
  \/ \E id \in Ids : SyncArm(id)
  \/ Spawn
  \/ \E id \in Ids : MutArm(id)
  \/ MutCall
  \/ MutUnlock
  \/ PostCheck
  \/ FinalJoin
  \/ Finish
  \/ Unwind

\* the steps of a publish call: its own thread and its workers
PublishStep == MainStep \/ \E id \in Ids : WorkerRun(id)

\* scheduling: the thread in publish and every spawned worker keep running,
\* and the caller takes the outcome; nothing obliges the caller to make
\* another call
Fairness ==
  /\ WF_vars(MainStep)
  /\ \A id \in Ids : WF_vars(WorkerRun(id))
  /\ WF_vars(Return)

FairSpec == Spec /\ Fairness

\* the publisher with handlers that may never return
NextHang == Next \/ \E id \in Ids : Hang(id)

SpecHang == Init /\ [][NextHang]_vars

(* ------------------------------------ the earlier publisher (src/src) *)

\* no caller is inside publish: what a &mut self call needs
OldQuiet == \A c \in Callers : old[c].pc = "idle"

\* the earlier Publisher::subscribe: the same id scheme, every handler is
\* an Arc<dyn DynHandle>
OldSubscribe(ty, panics) == OldQuiet /\ Subscribe(ty, panics)

\* the earlier Publisher::unsubscribe
OldUnsubscribe(id) == OldQuiet /\ Unsubscribe(id)

\* entry of the earlier publish(&self, event): a shared borrow, so a caller
\* may enter while another caller's publish is running
OldPublishBegin(c, ev, par) ==
  /\ old[c].pc = "idle"
  /\ old' = [old EXCEPT ![c] = [IdleCall EXCEPT !.pc = "loop",
                                               !.event = ev,
                                               !.max_threads = MaxThreads(par),
                                               !.remaining = DOMAIN handlers]]
  /\ UNCHANGED core

\* one loop iteration: handles.push(s.spawn(...)), then the test
\* `handles.len() == max_threads` that decides whether the batch is drained
OldSpawn(c, id) ==
  /\ old[c].pc = "loop"
  /\ id \in old[c].remaining
  /\ old' = [old EXCEPT ![c].remaining = @ \ {id},
                        ![c].handles = Append(@, id),
                        ![c].thread[id] = "running",
                        ![c].pc = IF Len(old[c].handles) + 1
                                      = old[c].max_threads
                                    THEN "drain" ELSE "loop"]
  /\ UNCHANGED core

\* the spawned closure `handler.dyn_handle(cloned_event.as_ref())`: a panic
\* of the handler ends the thread with Err(payload)
OldWorkerRun(c, id) ==
  /\ old[c].thread[id] = "running"
  /\ old' = [old EXCEPT ![c].thread[id] =
               IF dyn_handle(handlers[id], old[c].event) = "panic"
                 THEN "err" ELSE "ok"]
  /\ UNCHANGED core

\* `for handle in handles.drain(..) { if let Err(e) = handle.join()
\* { errors.push(e) } }`, one handle a step; join blocks until the worker
\* has finished
OldDrain(c) ==
  /\ old[c].pc = "drain"
  /\ LET id == Head(old[c].handles) IN
       /\ old[c].thread[id] \in {"ok", "err"}
       /\ old' = [old EXCEPT ![c].handles = Tail(@),
                             ![c].errors = PushIfErr(@, id, old[c].thread[id]),
                             ![c].thread[id] = "joined",
                             ![c].pc = IF Len(old[c].handles) = 1
                                         THEN "loop" ELSE "drain"]
  /\ UNCHANGED core

\* workers of caller c's last batch, which no join has taken, that panicked
Unhandled(c) == {i \in Ids : old[c].thread[i] = "err"}

\* the scope closure returns with the handles of a batch smaller than
\* max_threads never joined: thread::scope waits for those workers and
\* panics if one of them panicked; otherwise publish returns its Result
OldScopeEnd(c) ==
  /\ old[c].pc = "loop"
  /\ old[c].remaining = {}
  /\ \A i \in Ids : old[c].thread[i] # "running"
  /\ old' = [old EXCEPT
               ![c].pc = IF Unhandled(c) # {} THEN "panicked" ELSE "done",
               ![c].result = IF Unhandled(c) # {} THEN "Panic"
                             ELSE PublishResult(old[c].errors)]
  /\ UNCHANGED core

\* the caller has the outcome of its call
OldReturn(c) ==
  /\ old[c].pc \in {"done", "panicked"}
  /\ old' = [old EXCEPT ![c] = IdleCall]
  /\ UNCHANGED core

OldNext ==
  \/ \E ty \in HandlerTys, panics \in BOOLEAN : OldSubscribe(ty, panics)
  \/ \E id \in Ids : OldUnsubscribe(id)
  \/ \E c \in Callers, ev \in EventTypes, par \in Parallelism :
       OldPublishBegin(c, ev, par)
  \/ \E c \in Callers, id \in Ids : OldSpawn(c, id)
  \/ \E c \in Callers, id \in Ids : OldWorkerRun(c, id)
  \/ \E c \in Callers : OldDrain(c)
  \/ \E c \in Callers : OldScopeEnd(c)
  \/ \E c \in Callers : OldReturn(c)

SpecOld == Init /\ [][OldNext]_vars

(* --------------------------------------------------------------- claims *)

\* the entries of the registry; publish cannot change them (it holds
\* &mut self), so these are also the entries registered when it began
Registered == DOMAIN handlers

\* the registered handlers declared for the type of the published event
Matching == {i \in Registered : handlers[i].ty \in {event, Direct}}

\* registered handlers that declare an event type: closures wrapped in a
\* Handler, Handle objects and HandleMut objects
Declared == {i \in Registered : handlers[i].ty \in EventTypes}

\* the matching handlers whose user code panics
Faulting == {i \in Matching : handlers[i].panics}

SyncIds == {i \in Registered : handlers[i].kind = "Sync"}

MutIds == {i \in Registered : handlers[i].kind = "SyncMut"}

\* C1 (type filtering): the user code of a registered handler that declares
\* an event type (closure Handler, Handle or HandleMut object) has run during a
\* publish exactly when its trampoline was called and the event's type is
\* the type the handler is declared for; a handler declared for another type
\* has not run, and once publish has returned every handler declared for the
\* event's type has run exactly once and no other has run.
C1_TypeFiltering ==
  /\ \A i \in Declared :
       calls[i] = IF tramp[i] = 1 /\ handlers[i].ty = event THEN 1 ELSE 0
  /\ pc = "done" =>
       \A i \in Declared : calls[i] = 1 <=> handlers[i].ty = event

\* a publish has returned with a read-only handler of the event's type run
\* once, and a read-only and a mutating handler of the other type not run
C1_Witness ==
  /\ pc = "done"
  /\ \E i \in SyncIds : handlers[i].ty = event /\ calls[i] = 1
  /\ \E i \in SyncIds \cap Declared :
       handlers[i].ty # event /\ calls[i] = 0 /\ tramp[i] = 1
  /\ \E i \in MutIds \cap Declared :
       handlers[i].ty # event /\ calls[i] = 0 /\ tramp[i] = 1

\* C2 (subscription id monotonicity): the first id issued is 1, every id
\* issued is greater than every id issued before it, and so none is issued
\* twice, whatever was unsubscribed or published in between.
C2_IdMonotonic ==
  /\ issued # <<>> => issued[1] = 1
  /\ \A j, k \in DOMAIN issued : j < k => issued[j] < issued[k]

\* three ids have been issued, the last one with every earlier entry removed
\* and a publish made
C2_Witness ==
  /\ Len(issued) = 3
  /\ unsubscribed = {1, 2}
  /\ Registered = {3}
  /\ pc = "done"

\* C3 (unsubscribe correctness): a handler whose id was passed to unsubscribe
\* or unsubscribe_mut is not invoked by any later publish (neither its
\* trampoline nor a worker for it), and a publish that has returned has
\* dispatched to every handler that was issued an id and not unsubscribed.
C3_UnsubscribeCorrect ==
  /\ \A i \in unsubscribed :
       tramp[i] = 0 /\ calls[i] = 0 /\ thread[i] = "none"
  /\ pc = "done" => \A i \in Range(issued) \ unsubscribed : tramp[i] = 1

\* a publish has returned after a read-only and a mutating handler were
\* unsubscribed, and the handler left has been run
C3_Witness ==
  /\ pc = "done"
  /\ Cardinality(unsubscribed) = 2
  /\ \E i \in Registered : calls[i] = 1

\* C4 (fault isolation among read-only handlers): a panic in a read-only
\* handler never unwinds publish (publish unwinds only at a SyncMut entry
\* whose lock is poisoned, by this call or an earlier one), and when
\* publish has returned every read-only handler has been called, every
\* matching one has run once, and the failure list has one record for each
\* matching read-only handler that panicked: with three matching handlers of
\* which one panics, a list of length 1.
C4_FaultIsolation ==
  /\ pc \in {"unwind", "panicked"} => cur \in MutIds /\ cur \in poisoned
  /\ pc = "done" =>
       /\ \A i \in SyncIds : tramp[i] = 1
       /\ \A i \in SyncIds \cap Matching : calls[i] = 1
       /\ Len(errors) = Cardinality(SyncIds \cap Faulting)
       /\ SyncIds \cap Faulting # {} => result = "Err"

\* three read-only handlers match, exactly one of them panicked, all three
\* ran and publish returned Err with one record
C4_Witness ==
  /\ pc = "done"
  /\ Cardinality(SyncIds \cap Matching) = 3
  /\ Cardinality(SyncIds \cap Faulting) = 1
  /\ \A i \in SyncIds : calls[i] = 1
  /\ result = "Err"
  /\ Len(errors) = 1

\* C5 (publish never raises for a per-handler fault): with no lock poisoned
\* beforehand, publish never unwinds because a handler's invocation
\* panicked: the panic becomes a record of the Err list and publish returns.
\* (The lock of the handler that panicked is poisoned by that panic; any
\* other poisoned lock was poisoned before.)
C5_NeverRaises == cause = "fault" => poisoned \ {cur} # {}

\* C6 (failure records are exact): the list publish returns holds exactly one
\* record for each registered handler that matches the event and panics and
\* nothing else, and the result is Ok exactly when there is no such handler.
C6_RecordsExact ==
  pc = "done" =>
    /\ Range(errors) = Faulting
    /\ Len(errors) = Cardinality(Faulting)
    /\ result = "Ok" <=> Faulting = {}
    /\ result = "Err" <=> Faulting # {}

\* publish returned Err with two records while a handler that returned and a
\* handler of another type left none
C6_Witness ==
  /\ pc = "done"
  /\ result = "Err"
  /\ Len(errors) = 2
  /\ Cardinality(Registered) = 3
  /\ \E i \in Registered : i \notin Range(errors)

\* C7 (mutating-handler serialization): for a mutating handler that counts
\* its invocations, whenever no publish is running the counter is the number
\* of matching publish calls made since it was subscribed, less those that
\* unwound before reaching it; with no such call (as when it is the only
\* mutating handler) the counter after N matching publishes is exactly N.
\* While a publish is running the counter is that number or one less.
C7_CounterExact ==
  \A i \in MutIds :
    ~handlers[i].panics =>
      /\ pc \in {"idle", "done", "panicked"} =>
           counter[i] + missed[i] = pubs[i]
      /\ pc \in {"idle", "done"} /\ missed[i] = 0 => counter[i] = pubs[i]
      /\ counter[i] + missed[i] \in {pubs[i], pubs[i] - 1}

\* the only mutating handler registered has counted two publishes, with
\* read-only handlers registered beside it
C7_Witness ==
  /\ pc = "done"
  /\ Cardinality(MutIds) = 1
  /\ Cardinality(SyncIds) = 2
  /\ \E i \in MutIds : ~handlers[i].panics /\ pubs[i] = 2 /\ counter[i] = 2

\* C8 (concurrency bound): during a publish the budget is at least 1 and the
\* number of workers spawned and not yet joined never exceeds it.
C8_ConcurrencyBound ==
  pc # "idle" =>
    /\ max_threads >= 1
    /\ Cardinality(InFlight) <= max_threads
    /\ Len(active_handles) <= max_threads

\* more read-only handlers than the budget, the budget used up and a handler
\* still to come
C8_Witness ==
  /\ Cardinality(SyncIds) > max_threads
  /\ Cardinality(Running) = max_threads
  /\ max_threads = 2
  /\ remaining # {}

\* C9 (exactly-once dispatch): no trampoline is called twice during one
\* publish, and when publish returns the trampoline of every registered
\* handler of either kind has been called exactly once: every matching
\* handler ran once and no other handler ran.
C9_ExactlyOnce ==
  /\ \A i \in Ids : tramp[i] <= 1 /\ calls[i] <= tramp[i]
  /\ pc = "done" =>
       /\ \A i \in Registered : tramp[i] = 1
       /\ \A i \in Matching : calls[i] = 1
       /\ \A i \in Registered \ Matching : calls[i] = 0

\* publish returned with a read-only and a mutating handler both run and a
\* handler of another type passed over
C9_Witness ==
  /\ pc = "done"
  /\ \E i \in SyncIds \cap Matching : calls[i] = 1
  /\ \E i \in MutIds \cap Matching : calls[i] = 1
  /\ \E i \in Registered \ Matching : tramp[i] = 1 /\ calls[i] = 0

\* C10 (publish is blocking): when publish returns no worker it started is
\* running or waiting to be joined: the worker of every read-only handler
\* has finished and has been joined.
C10_Blocking ==
  pc = "done" =>
    /\ Running = {}
    /\ InFlight = {}
    /\ active_handles = <<>>
    /\ \A i \in SyncIds : thread[i] = "joined"

\* publish returned after joining three workers, one of which had panicked
C10_Witness ==
  /\ pc = "done"
  /\ Cardinality({i \in Ids : thread[i] = "joined"}) = 3
  /\ Len(errors) = 1

\* C11 as stated (publish succeeds when nothing matches): in every publisher
\* state, a publish of an event that no registered handler is declared for
\* does not unwind, collects no failure record and returns Ok.
C11_NoMatchOk ==
  pc # "idle" /\ Matching = {} =>
    /\ pc \notin {"unwind", "panicked"}
    /\ errors = <<>>
    /\ pc = "done" => result = "Ok"

\* C11 as amended: the same, in every publisher state in which no registered
\* mutating handler's lock is poisoned (an empty registry included).
C11_NoMatchOkUnpoisoned ==
  pc # "idle" /\ Matching = {} /\ Registered \cap poisoned = {} =>
    /\ pc \notin {"unwind", "panicked"}
    /\ errors = <<>>
    /\ pc = "done" => result = "Ok"

\* publish returned Ok with handlers of both kinds registered, one of which
\* panics on its own event type, and none declared for the event
C11_Witness ==
  /\ pc = "done"
  /\ result = "Ok"
  /\ Matching = {}
  /\ SyncIds # {}
  /\ MutIds # {}
  /\ \E i \in Registered : handlers[i].panics

\* an unsubscribe or unsubscribe_mut call with id
Removal(id) == Unsubscribe(id) \/ UnsubscribeMut(id)

\* C12 (unsubscribing an absent id is a silent no-op): a call of unsubscribe
\* or unsubscribe_mut with an id that is not in the registry (never issued,
\* or already removed) changes neither the registry nor handler_count, nor
\* anything else of the publisher.
C12_AbsentIdNoOp ==
  [][\A id \in Ids :
       Removal(id) /\ id \notin DOMAIN handlers => UNCHANGED vars]_vars

\* the publisher is free for a call, with an id that was removed, an id not
\* yet issued and an entry left: unsubscribe of the first two ids leaves
\* exactly this state
C12_Witness ==
  /\ pc = "idle"
  /\ unsubscribed # {}
  /\ handler_count < MaxSubs
  /\ Registered # {}
  /\ Registered \cup unsubscribed = 1..handler_count

\* C13 (poisoning is fatal, not silent): a mutating handler whose lock is
\* poisoned is not invoked: its trampoline is called in a publish only by
\* the invocation that poisons it.  A publish that reaches it unwinds with
\* the poisoning as its cause, without calling the handler, and so no
\* publish returns a value with a poisoned handler registered.
C13_PoisonFatal ==
  /\ \A i \in Registered \cap poisoned :
       /\ i \notin locked
       /\ tramp[i] = 1 => cause = "fault" /\ cur = i
  /\ cause = "poisoned" =>
       /\ pc \in {"unwind", "panicked"}
       /\ cur \in poisoned
       /\ tramp[cur] = 0
       /\ calls[cur] = 0
  /\ pc = "panicked" => result = "Panic"
  /\ pc = "done" => Registered \cap poisoned = {}

\* a publish of an event the poisoned handler is not declared for has
\* unwound on its lock, after a read-only handler was run
C13_Witness ==
  /\ pc = "panicked"
  /\ cause = "poisoned"
  /\ cur \notin Matching
  /\ tramp[cur] = 0
  /\ \E i \in SyncIds : tramp[i] = 1

\* the thread of publish is at a join of a worker that never returns: the
\* oldest handle, at a capacity check with max_threads handles or in the
\* final join loop
JoinsHung ==
  /\ active_handles # <<>>
  /\ Head(active_handles) \in Hung
  /\ \/ pc = "post" /\ AtCapacity(Len(active_handles), max_threads)
     \/ pc = "loop" /\ remaining = {}

\* C14 as stated (a handler that never returns blocks only its own worker
\* slot): with max_threads >= 2 and more read-only handlers than
\* max_threads, while one invocation never returns and some other
\* registered handler has not been invoked yet, the publish call can still
\* take a step towards invoking it.
C14_OthersStillInvoked ==
  /\ Hung # {}
  /\ max_threads >= 2
  /\ Cardinality(SyncIds) > max_threads
  /\ \E i \in Registered : tramp[i] = 0
  => ENABLED PublishStep

\* C14 as amended: once a read-only handler never returns, publish never
\* returns; its thread goes on starting handlers until it has to join the
\* hung worker, and there it is blocked for good: nothing of the call can
\* move only at such a join, or while the scope waits for its workers
\* after the loop panicked.
C14_HungBlocksPublish ==
  Hung # {} =>
    /\ pc \notin {"idle", "done", "panicked"}
    /\ JoinsHung => ~ ENABLED MainStep
    /\ ~ ENABLED PublishStep => JoinsHung \/ pc = "unwind"

\* with max_threads = 2 and three read-only handlers, the first worker
\* hangs, the second has finished, and the third handler was never started
C14_Witness ==
  /\ Hung # {}
  /\ max_threads = 2
  /\ Cardinality(SyncIds) = 3
  /\ pc = "post"
  /\ JoinsHung
  /\ Running = Hung
  /\ \E i \in remaining : tramp[i] = 0 /\ thread[i] = "none"

\* C15 as stated (failure-list order): when several read-only handlers
\* fault during one publish, the list publish returns holds their records
\* in the order in which those invocations completed.
C15_CompletionOrder == pc = "done" => errors = errdone

\* C15 as amended: the list holds the records in the order in which the
\* faulting handlers were spawned, which is the order the loop visited
\* them in; while publish runs, errors is a prefix of that order.
C15_SpawnOrder ==
  /\ Len(errors) <= Len(errspawn)
  /\ errors = SubSeq(errspawn, 1, Len(errors))
  /\ pc = "done" => errors = errspawn

\* publish returned two records in spawn order although the two workers
\* finished in the opposite order
C15_Witness ==
  /\ pc = "done"
  /\ Len(errors) = 2
  /\ errors = errspawn
  /\ errdone = <<errors[2], errors[1]>>

\* C16 as stated (publish runs to completion): under fair scheduling, with
\* every handler invocation ending (by return or by fault) and no lock
\* poisoned, a publish call that has begun eventually returns.
C16_RunsToCompletion ==
  (pc = "loop" /\ Registered \cap poisoned = {}) ~> (pc = "done")

\* what does hold: every publish call that has begun comes to its end, by
\* returning or by unwinding, and the publisher is free again
C16_CallEnds == (pc # "idle") ~> (pc = "idle")

\* C17 (mutating handlers are serialized, locks are scoped to one
\* invocation): at most one handler lock is held at any time, and only
\* by the thread of publish around the trampoline call of the entry it is
\* at: taken before the call and held until it has returned.  A mutating
\* handler never has a worker, and no lock is held once publish has left
\* the arm, in particular when it returns.
C17_ExclusiveSerialized ==
  /\ Cardinality(locked) <= 1
  /\ locked # {} => pc \in {"call", "unlock"}
  /\ pc \in {"call", "unlock"} =>
       /\ locked = {cur}
       /\ cur \in MutIds
       /\ tramp[cur] = (IF pc = "call" THEN 0 ELSE 1)
  /\ \A i \in MutIds :
       /\ thread[i] = "none"
       /\ \A k \in DOMAIN active_handles : active_handles[k] # i
       /\ tramp[i] <= 1
  /\ pc \in {"done", "idle"} => locked = {}

\* the second mutating handler of a publish has returned and its lock is
\* still held; the first one was invoked and released before, and a worker
\* of a read-only handler is running meanwhile
C17_Witness ==
  /\ pc = "unlock"
  /\ locked = {cur}
  /\ \E j \in MutIds \ {cur} : tramp[j] = 1
  /\ \E i \in SyncIds : thread[i] = "running"

\* the trampoline of entry i is called in this step
Invoked(i) == tramp'[i] > tramp[i]

\* C18 (kind separation): an entry registered through subscribe or
\* subscribe_with is stored as Sync, is never locked or poisoned, and its
\* trampoline is only called by its worker thread; an entry registered
\* through subscribe_mut is stored as SyncMut, never has a worker, and its
\* trampoline is only called by the thread of publish while its lock is
\* held.  No step changes the kind of a stored entry.
C18_KindSeparation ==
  /\ [](\A i \in Registered :
          /\ via[i] \in {"DynHandle", "DynHandleMut"}
          /\ via[i] = "DynHandle" =>
               /\ handlers[i].kind = "Sync"
               /\ i \notin locked \cup poisoned
               /\ tramp[i] > 0 => thread[i] \in {"ok", "err", "joined"}
          /\ via[i] = "DynHandleMut" =>
               /\ handlers[i].kind = "SyncMut"
               /\ thread[i] = "none")
  /\ [][\A i \in Registered :
          /\ Invoked(i) /\ via[i] = "DynHandle" =>
               thread[i] = "running" /\ ~ (pc = "call" /\ cur = i)
          /\ Invoked(i) /\ via[i] = "DynHandleMut" =>
               pc = "call" /\ cur = i /\ i \in locked
          /\ i \in DOMAIN handlers' =>
               handlers'[i].kind = handlers[i].kind]_vars

\* one publish has invoked a handler registered by subscribe on a worker
\* and a handler registered by subscribe_mut, which counted the event
C18_Witness ==
  /\ pc = "done"
  /\ \E i \in Registered :
       via[i] = "DynHandle" /\ calls[i] = 1 /\ thread[i] = "joined"
  /\ \E j \in Registered :
       via[j] = "DynHandleMut" /\ calls[j] = 1 /\ counter[j] > 0

\* C20 (registry and counter): handler_count is the number of subscribe,
\* subscribe_with and subscribe_mut calls made so far; every key of the
\* registry lies in 1..handler_count; the size of the registry is that
\* number less the removals that hit a present id.  The ids of both kinds
\* come from the one counter: the k-th call, of whichever kind, got id k,
\* so an id names the one handler, of the one kind, that its call stored.
C20_RegistryCounter ==
  /\ handler_count = Len(issued)
  /\ Registered \subseteq 1..handler_count
  /\ Cardinality(Registered) = Len(issued) - Cardinality(unsubscribed)
  /\ \A k \in DOMAIN issued : issued[k] = k
  /\ \A i \in 1..handler_count :
       IF i \in Registered
         THEN /\ i \notin unsubscribed
              /\ via[i] = (IF handlers[i].kind = "Sync" THEN "DynHandle"
                           ELSE "DynHandleMut")
         ELSE i \in unsubscribed /\ via[i] = "none"

\* three calls of both kinds were made, one id was removed, and a read-only
\* and a mutating handler are left under different ids
C20_Witness ==
  /\ handler_count = MaxSubs
  /\ Cardinality(unsubscribed) = 1
  /\ SyncIds # {}
  /\ MutIds # {}
  /\ pc = "done"

\* the handlers that fault in caller c's call of the earlier publish
OldFaulting(c) ==
  {i \in Registered : dyn_handle(handlers[i], old[c].event) = "panic"}

\* C19 (the earlier, batch-draining publish collects every fault): when a
\* call of the earlier publish ends, it ends by returning, its list holds a
\* record for exactly the handlers that faulted, those of the last batch of
\* fewer than max_threads workers included, and it returns Err if there is
\* one and Ok otherwise; no fault is propagated to the caller.
C19_OldCollectsAll ==
  \A c \in Callers :
    old[c].pc \in {"done", "panicked"} =>
      /\ old[c].pc = "done"
      /\ Range(old[c].errors) = OldFaulting(c)
      /\ old[c].result = (IF OldFaulting(c) = {} THEN "Ok" ELSE "Err")

\* the loop of publish and its joins are over: the list is complete
Collected ==
  \/ pc = "done"
  \/ pc = "loop" /\ remaining = {} /\ active_handles = <<>>

\* C21 (publish leaves the registry untouched): no step of a publish call,
\* from its entry to its return, changes handler_count or the handlers map
\* (the set of ids and every entry with its kind).  A read-only handler
\* that left a record in a returned list is therefore still registered, and
\* the next publish of its event type invokes it, once, and gets its fault
\* again: nothing is retried within a call and nothing is dropped after it.
C21_PublishKeepsRegistry ==
  /\ [][pc # "idle" \/ pc' # "idle" =>
          handlers' = handlers /\ handler_count' = handler_count]_vars
  /\ [](faulted \subseteq SyncIds)
  /\ [](Collected =>
          \A i \in faulted :
            Invokes(handlers[i], event) =>
              /\ calls[i] = 1
              /\ \E k \in DOMAIN errors : errors[k] = i)

\* a later publish has collected, before it returns, the fault of a handler
\* that already had a record in a list returned by an earlier publish
C21_Witness ==
  /\ pc = "loop"
  /\ remaining = {}
  /\ active_handles = <<>>
  /\ \E i \in faulted : i \in Range(errors) /\ calls[i] = 1

\* C22 (unsubscribe and unsubscribe_mut are interchangeable): in every
\* publisher state and for every id, the one call is possible exactly when
\* the other is, and a step is a step of unsubscribe(id) exactly when it is
\* a step of unsubscribe_mut(id): both give the same state.  Either call
\* removes the entry under id whatever its kind, and a mutating handler
\* removed this way is not invoked, locked or counted for any more.
C22_Interchangeable ==
  /\ [](\A id \in Ids : ENABLED Unsubscribe(id) <=> ENABLED UnsubscribeMut(id))
  /\ [][\A id \in Ids :
          /\ Unsubscribe(id) <=> UnsubscribeMut(id)
          /\ Removal(id) => id \notin DOMAIN handlers']_vars
  /\ [](\A i \in removed_mut :
          /\ i \notin Registered
          /\ i \notin locked \cup poisoned
          /\ tramp[i] = 0 /\ calls[i] = 0 /\ counter[i] = 0)

\* a mutating handler was removed, as in examples/trait_mut.rs, and a
\* publish that invoked the handlers still registered has returned
C22_Witness ==
  /\ pc = "done"
  /\ removed_mut # {}
  /\ \E j \in Registered : calls[j] = 1
  /\ \A i \in removed_mut : tramp[i] = 0

\* C23 (no worker outlives publish, even when it leaves by a panic): when a
\* publish call has unwound, because a mutating handler faulted or a lock
\* was found poisoned, no worker it spawned is still running: every worker
\* spawned has made its one trampoline call and finished, although its
\* handle may never have been joined.  Once the caller has the outcome,
\* nothing of the call is left.
C23_NoWorkerOutlives ==
  /\ pc = "panicked" =>
       /\ cause \in {"fault", "poisoned"}
       /\ Running = {}
       /\ \A i \in Ids : thread[i] # "none" =>
            thread[i] \in {"ok", "err", "joined"} /\ tramp[i] = 1
  /\ pc = "idle" => \A i \in Ids : thread[i] = "none"

\* publish has unwound on the fault of a mutating handler while a worker
\* was in flight: the worker has finished, its handle was never joined
C23_Witness ==
  /\ pc = "panicked"
  /\ cause = "fault"
  /\ \E i \in SyncIds : thread[i] \in {"ok", "err"} /\ tramp[i] = 1

\* C24 (scheduling-loop invariant): whenever publish is at the start of a
\* loop iteration (or at the final joins), fewer than max_threads handles
\* are unjoined, so the capacity check before a spawn finds nothing to do
\* and the spawn has room; with max_threads = 1 no worker is unjoined when
\* the next handler, of either kind, is started.
C24_LoopInvariant ==
  /\ pc \in {"loop", "spawn"} =>
       /\ Len(active_handles) + 1 <= max_threads
       /\ ~ AtCapacity(Len(active_handles), max_threads)
       /\ InFlight = Range(active_handles)
  /\ max_threads = 1 /\ pc \in {"loop", "spawn", "call", "unlock"} =>
       /\ active_handles = <<>>
       /\ \A i \in Ids : thread[i] \in {"none", "joined"}

\* with max_threads = 2 an iteration starts with one worker in flight after
\* the check at the end of the last iteration has joined the oldest one
C24_Witness ==
  /\ pc = "loop"
  /\ remaining # {}
  /\ max_threads = 2
  /\ Len(active_handles) = 1
  /\ \E i \in SyncIds : thread[i] = "joined"

====
